---- MODULE Spec2Model ----
(***************************************************************************)
(* Market-basket co-occurrence analysis: the co-occurrence graph           *)
(* (src/src/cooccurrence_graph.py), the query service over it              *)
(* (src/src/query_service.py), the transaction loader                      *)
(* (src/src/transaction_loader.py) and the interactive loop (src/main.py). *)
(*                                                                         *)
(* Item names are Python strings.  A string is modelled as the sequence    *)
(* of its code points, so that string comparison (<) is the lexicographic  *)
(* comparison Python performs.  A Python dict is modelled as the sequence  *)
(* of its [k, v] entries in insertion order, which is the order in which   *)
(* dict iteration (.items()) visits them.                                  *)
(***************************************************************************)
EXTENDS Integers, Sequences, FiniteSets, TLC

VARIABLES
    graph,      \* CooccurrenceGraph.graph: dict item -> dict item -> weight
    together,   \* history: together[<<a, b>>] = number of baskets applied so far that contain both a and b
    dupFree,    \* history: TRUE iff no basket applied so far repeated an item
    last,       \* history: kind of the last call made, "none" before the first
    pending,    \* test fixture: pending[i] = calls of setUp's i-th basket still to make
    file,       \* the CSV file at the path passed to load_from_csv
    result,     \* what the call of load_from_csv produced, NotCalled before it
    applied,    \* history: the baskets applied to the graph, in the order of the calls
    main        \* main(): where it is, whether query_service and graph are bound, the last dispatch

vars == <<graph, together, dupFree, last, pending, file, result, applied, main>>

----------------------------------------------------------------------------
(* Bounds of the model *)

MaxBasketLen == 3   \* longest list passed to update_from_basket
MaxWeight    == 2   \* update_from_basket is explored while no weight exceeds this
MaxK         == 3   \* largest k passed to top_with_item / top_bundles
MaxDepth     == 3   \* largest max_depth passed to bfs_related
MaxRows      == 2   \* most data rows of a CSV file passed to load_from_csv
MaxBaskets   == 2   \* longest list of baskets whose orders are compared

\* The items that occur in baskets.  One name is a proper prefix of another.
Items == {<<1>>, <<1, 2>>, <<2>>}

\* The items that queries are asked about: one of them never occurs in a basket.
QueryItems == Items \cup {<<3>>}

\* The arguments the queries are called with.
KValues         == 1..MaxK
DepthValues     == 0..MaxDepth
MinWeightValues == 0..(MaxWeight + 1)

RECURSIVE SeqsUpTo(_, _)
SeqsUpTo(S, n) ==
    IF n = 0 THEN {<<>>}
    ELSE LET shorter == SeqsUpTo(S, n - 1)
         IN  shorter \cup {Append(s, x) : s \in {t \in shorter : Len(t) = n - 1}, x \in S}

\* Every list of items of length <= MaxBasketLen, repeated items included.
Baskets == SeqsUpTo(Items, MaxBasketLen)

Range(s) == {s[i] : i \in DOMAIN s}

IsDupFree(s) == \A i, j \in DOMAIN s : i # j => s[i] # s[j]

Min(a, b) == IF a <= b THEN a ELSE b

----------------------------------------------------------------------------
(* Python built-ins used by the code *)

\* str.__lt__: lexicographic comparison by code point; a proper prefix is smaller.
RECURSIVE StrLess(_, _)
StrLess(s, t) ==
    IF t = <<>> THEN FALSE
    ELSE IF s = <<>> THEN TRUE
    ELSE IF s[1] # t[1] THEN s[1] < t[1]
    ELSE StrLess(Tail(s), Tail(t))

\* k in d
Has(d, k) == \E i \in DOMAIN d : d[i].k = k

\* d.get(k, default)
Get(d, k, default) ==
    IF Has(d, k) THEN d[CHOOSE i \in DOMAIN d : d[i].k = k].v ELSE default

\* d[k] = v: an existing key keeps its position, a new key goes last.
Put(d, k, v) ==
    IF Has(d, k)
    THEN [i \in DOMAIN d |-> IF d[i].k = k THEN [k |-> k, v |-> v] ELSE d[i]]
    ELSE Append(d, [k |-> k, v |-> v])

\* The keys of d, as a set.
Keys(d) == {d[i].k : i \in DOMAIN d}

\* s[:k] (Python slice; a negative k counts from the end).
SliceTo(s, k) ==
    IF k >= 0 THEN SubSeq(s, 1, Min(k, Len(s)))
    ELSE SubSeq(s, 1, IF Len(s) + k > 0 THEN Len(s) + k ELSE 0)

----------------------------------------------------------------------------
(* CooccurrenceGraph *)

\* UpdatePair with the reverse direction forgotten: only graph[item_a][item_b] is incremented.
UpdatePair_OneWay(g, item_a, item_b) ==
    IF item_a = item_b THEN g
    ELSE LET g1 == IF ~Has(g, item_a) THEN Put(g, item_a, <<>>) ELSE g
             g2 == IF ~Has(g1, item_b) THEN Put(g1, item_b, <<>>) ELSE g1
         IN  Put(g2, item_a,
                 Put(Get(g2, item_a, <<>>), item_b,
                     Get(Get(g2, item_a, <<>>), item_b, 0) + 1))

\* UpdatePair storing 1 instead of incrementing the stored weight.
UpdatePair_SetOne(g, item_a, item_b) ==
    IF item_a = item_b THEN g
    ELSE LET g1 == IF ~Has(g, item_a) THEN Put(g, item_a, <<>>) ELSE g
             g2 == IF ~Has(g1, item_b) THEN Put(g1, item_b, <<>>) ELSE g1
             g3 == Put(g2, item_a, Put(Get(g2, item_a, <<>>), item_b, 1))
         IN  Put(g3, item_b, Put(Get(g3, item_b, <<>>), item_a, 1))

\* UpdatePair counting from 0: the first co-occurrence stores 0 (the default of
\* .get taken as -1), later ones increment.
UpdatePair_StartAtZero(g, item_a, item_b) ==
    IF item_a = item_b THEN g
    ELSE LET g1 == IF ~Has(g, item_a) THEN Put(g, item_a, <<>>) ELSE g
             g2 == IF ~Has(g1, item_b) THEN Put(g1, item_b, <<>>) ELSE g1
             g3 == Put(g2, item_a,
                       Put(Get(g2, item_a, <<>>), item_b,
                           Get(Get(g2, item_a, <<>>), item_b, -1) + 1))
         IN  Put(g3, item_b,
                 Put(Get(g3, item_b, <<>>), item_a,
                     Get(Get(g3, item_b, <<>>), item_a, -1) + 1))

\* UpdatePair without the "if item_a not in self.graph" test: item_a's
\* neighbor dict is replaced by {} on every pair.
UpdatePair_ResetNode(g, item_a, item_b) ==
    IF item_a = item_b THEN g
    ELSE LET g1 == Put(g, item_a, <<>>)
             g2 == IF ~Has(g1, item_b) THEN Put(g1, item_b, <<>>) ELSE g1
             g3 == Put(g2, item_a,
                       Put(Get(g2, item_a, <<>>), item_b,
                           Get(Get(g2, item_a, <<>>), item_b, 0) + 1))
         IN  Put(g3, item_b,
                 Put(Get(g3, item_b, <<>>), item_a,
                     Get(Get(g3, item_b, <<>>), item_a, 0) + 1))

\* UpdatePair with the two nodes created ahead of the
\* "if item_a == item_b: continue" guard.
UpdatePair_NodesBeforeGuard(g, item_a, item_b) ==
    LET g1 == IF ~Has(g, item_a) THEN Put(g, item_a, <<>>) ELSE g
        g2 == IF ~Has(g1, item_b) THEN Put(g1, item_b, <<>>) ELSE g1
        g3 == Put(g2, item_a,
                  Put(Get(g2, item_a, <<>>), item_b,
                      Get(Get(g2, item_a, <<>>), item_b, 0) + 1))
    IN  IF item_a = item_b THEN g2
        ELSE Put(g3, item_b,
                 Put(Get(g3, item_b, <<>>), item_a,
                     Get(Get(g3, item_b, <<>>), item_a, 0) + 1))

\* UpdatePair without the "if item_a == item_b: continue" guard.
UpdatePair_NoSelfGuard(g, item_a, item_b) ==
    LET g1 == IF ~Has(g, item_a) THEN Put(g, item_a, <<>>) ELSE g
        g2 == IF ~Has(g1, item_b) THEN Put(g1, item_b, <<>>) ELSE g1
        g3 == Put(g2, item_a,
                  Put(Get(g2, item_a, <<>>), item_b,
                      Get(Get(g2, item_a, <<>>), item_b, 0) + 1))
    IN  Put(g3, item_b,
            Put(Get(g3, item_b, <<>>), item_a,
                Get(Get(g3, item_b, <<>>), item_a, 0) + 1))

\* The body of the inner loop of update_from_basket for one (item_a, item_b).
UpdatePair(g, item_a, item_b) ==
    IF item_a = item_b THEN g
    ELSE LET g1 == IF ~Has(g, item_a) THEN Put(g, item_a, <<>>) ELSE g
             g2 == IF ~Has(g1, item_b) THEN Put(g1, item_b, <<>>) ELSE g1
             g3 == Put(g2, item_a,
                       Put(Get(g2, item_a, <<>>), item_b,
                           Get(Get(g2, item_a, <<>>), item_b, 0) + 1))
         IN  Put(g3, item_b,
                 Put(Get(g3, item_b, <<>>), item_a,
                     Get(Get(g3, item_b, <<>>), item_a, 0) + 1))

\* for i in range(len(basket)): for j in range(i + 1, len(basket)): ...
\* (indices are 1-based here).
RECURSIVE UpdateLoop(_, _, _, _)

\* The loops with the node of basket[i] created in the outer loop, before any
\* pair is formed (self.graph.setdefault(item_a, {}) ahead of the inner loop).
UpdateLoop_CreatesNodes(g, basket, i, j) ==
    IF i > Len(basket) THEN g
    ELSE LET g1 == IF ~Has(g, basket[i]) THEN Put(g, basket[i], <<>>) ELSE g
         IN  IF j > Len(basket) THEN UpdateLoop(g1, basket, i + 1, i + 2)
             ELSE UpdateLoop(UpdatePair(g1, basket[i], basket[j]), basket, i, j + 1)

UpdateLoop(g, basket, i, j) ==
    IF i > Len(basket) THEN g
    ELSE IF j > Len(basket) THEN UpdateLoop(g, basket, i + 1, i + 2)
    ELSE UpdateLoop(UpdatePair(g, basket[i], basket[j]), basket, i, j + 1)

update_from_basket(g, basket) == UpdateLoop(g, basket, 1, 2)

\* The outcome of a call that raises KeyError (d[k] for a key that d lacks),
\* where the call would return a weight.
KeyError == -1

\* get_weight without the "if item_a not in self.graph: return 0" guard:
\* self.graph[item_a] raises KeyError for an unknown item_a.
get_weight_NoGuard(g, item_a, item_b) ==
    IF ~Has(g, item_a) THEN KeyError
    ELSE Get(Get(g, item_a, <<>>), item_b, 0)

get_weight(g, item_a, item_b) ==
    IF ~Has(g, item_a) THEN 0
    ELSE Get(Get(g, item_a, <<>>), item_b, 0)

\* The outcome of a call that raises KeyError where the call would return a
\* dict: one entry that no dict of the program holds.
KeyErrorDict == <<[k |-> <<0>>, v |-> KeyError]>>

\* neighbors written "return self.graph[item]": KeyError for an unknown item.
neighbors_NoDefault(g, item) ==
    IF ~Has(g, item) THEN KeyErrorDict ELSE Get(g, item, <<>>)

neighbors(g, item) == Get(g, item, <<>>)

\* The pair left in the order it was met, not sorted.
SortedPair_Unsorted(item_a, item_b) == <<item_a, item_b>>

\* tuple(sorted([item_a, item_b]))
SortedPair(item_a, item_b) ==
    IF StrLess(item_b, item_a) THEN <<item_b, item_a>> ELSE <<item_a, item_b>>

RECURSIVE EdgesInner(_, _, _, _)

\* EdgesInner without the "if pair in seen: continue" test.
EdgesInner_NoSeen(st, item_a, nbrs, j) ==
    IF j > Len(nbrs) THEN st
    ELSE LET pair == SortedPair(item_a, nbrs[j].k)
         IN  EdgesInner([edges |-> Append(st.edges, <<pair[1], pair[2], nbrs[j].v>>),
                         seen  |-> st.seen \cup {pair}],
                        item_a, nbrs, j + 1)

\* The inner loop of unique_edges over the entries of one neighbor dict,
\* from entry j on; st = [edges, seen].
EdgesInner(st, item_a, nbrs, j) ==
    IF j > Len(nbrs) THEN st
    ELSE LET pair == SortedPair(item_a, nbrs[j].k)
         IN  IF pair \in st.seen
             THEN EdgesInner(st, item_a, nbrs, j + 1)
             ELSE EdgesInner([edges |-> Append(st.edges, <<pair[1], pair[2], nbrs[j].v>>),
                              seen  |-> st.seen \cup {pair}],
                             item_a, nbrs, j + 1)

\* The outer loop of unique_edges over graph.items(), from entry i on.
RECURSIVE EdgesOuter(_, _, _)
EdgesOuter(st, g, i) ==
    IF i > Len(g) THEN st
    ELSE EdgesOuter(EdgesInner(st, g[i].k, g[i].v, 1), g, i + 1)

unique_edges(g) == EdgesOuter([edges |-> <<>>, seen |-> {}], g, 1).edges

----------------------------------------------------------------------------
(* QueryService *)

\* d.items(): the (key, value) tuples of d in insertion order.
ItemsOf(d) == [i \in DOMAIN d |-> <<d[i].k, d[i].v>>]

\* sorted(s, key=...): the stable sort of s, where keyLess[i, j] tells whether
\* the key of s[i] is smaller than the key of s[j].  Element i goes after every
\* element of smaller key and after the earlier elements of equal key.
StableSort(s, keyLess) ==
    LET rank(i) == 1 + Cardinality({j \in DOMAIN s :
                        \/ keyLess[j, i]
                        \/ (~keyLess[i, j] /\ j < i)})
    IN  [p \in DOMAIN s |-> s[CHOOSE i \in DOMAIN s : rank(i) = p]]

\* ItemKeyLess ranking by weight ascending (the sign of the weight forgotten).
ItemKeyLess_Ascending(x, y) ==
    \/ x[2] < y[2]
    \/ (x[2] = y[2] /\ StrLess(x[1], y[1]))

\* ItemKeyLess with the key (-x[1]) alone: no tie-break on the name.
ItemKeyLess_NoTieBreak(x, y) == -x[2] < -y[2]

\* The order of the keys (-x[1], x[0]) of (neighbor, weight) tuples.
ItemKeyLess(x, y) ==
    \/ -x[2] < -y[2]
    \/ (-x[2] = -y[2] /\ StrLess(x[1], y[1]))

\* EdgeKeyLess with the key (-x[2]) alone: no tie-break on the names.
EdgeKeyLess_NoTieBreak(x, y) == -x[3] < -y[3]

\* The order of the keys (-x[2], x[0], x[1]) of (item_a, item_b, weight) tuples.
EdgeKeyLess(x, y) ==
    \/ -x[3] < -y[3]
    \/ (-x[3] = -y[3] /\ StrLess(x[1], y[1]))
    \/ (-x[3] = -y[3] /\ x[1] = y[1] /\ StrLess(x[2], y[2]))

pair_frequency(g, item_a, item_b) == get_weight(g, item_a, item_b)

\* often_copurchased comparing with > instead of >=.
often_copurchased_Strict(g, item_a, item_b, threshold) ==
    pair_frequency(g, item_a, item_b) > threshold

often_copurchased(g, item_a, item_b, threshold) ==
    pair_frequency(g, item_a, item_b) >= threshold

\* top_with_item without the sorted() call: the first k of neighbors.items().
top_with_item_Unsorted(g, item, k) ==
    SliceTo(ItemsOf(neighbors(g, item)), k)

top_with_item(g, item, k) ==
    LET nbrs == neighbors(g, item)
    IN  IF nbrs = <<>> THEN <<>>
        ELSE LET items == ItemsOf(nbrs)
                 sorted_items == StableSort(items,
                                     [i, j \in DOMAIN items |-> ItemKeyLess(items[i], items[j])])
             IN  SliceTo(sorted_items, k)

top_bundles(g, k) ==
    LET edges == unique_edges(g)
    IN  IF edges = <<>> THEN <<>>
        ELSE LET sorted_edges == StableSort(edges,
                                     [i, j \in DOMAIN edges |-> EdgeKeyLess(edges[i], edges[j])])
             IN  SliceTo(sorted_edges, k)

RECURSIVE BfsNeighbors(_, _, _, _, _)

\* BfsNeighbors without the "if weight < min_weight: continue" filter.
BfsNeighbors_NoWeightFilter(st, nbrs, j, depth, min_weight) ==
    IF j > Len(nbrs) THEN st
    ELSE IF nbrs[j].k \in st.visited THEN BfsNeighbors(st, nbrs, j + 1, depth, min_weight)
    ELSE LET next_depth == depth + 1
         IN  BfsNeighbors(
                 [visited |-> st.visited \cup {nbrs[j].k},
                  levels  |-> Put(st.levels, next_depth,
                                  Get(st.levels, next_depth, {}) \cup {nbrs[j].k}),
                  queue   |-> Append(st.queue, <<nbrs[j].k, next_depth>>)],
                 nbrs, j + 1, depth, min_weight)

\* BfsNeighbors with "visited.add(neighbor)" forgotten.
BfsNeighbors_NoVisitedAdd(st, nbrs, j, depth, min_weight) ==
    IF j > Len(nbrs) THEN st
    ELSE IF nbrs[j].k \in st.visited THEN BfsNeighbors(st, nbrs, j + 1, depth, min_weight)
    ELSE IF nbrs[j].v < min_weight THEN BfsNeighbors(st, nbrs, j + 1, depth, min_weight)
    ELSE LET next_depth == depth + 1
         IN  BfsNeighbors(
                 [visited |-> st.visited,
                  levels  |-> Put(st.levels, next_depth,
                                  Get(st.levels, next_depth, {}) \cup {nbrs[j].k}),
                  queue   |-> Append(st.queue, <<nbrs[j].k, next_depth>>)],
                 nbrs, j + 1, depth, min_weight)

\* BfsNeighbors without the "if neighbor in visited: continue" test.
BfsNeighbors_NoVisitedTest(st, nbrs, j, depth, min_weight) ==
    IF j > Len(nbrs) THEN st
    ELSE IF nbrs[j].v < min_weight THEN BfsNeighbors(st, nbrs, j + 1, depth, min_weight)
    ELSE LET next_depth == depth + 1
         IN  BfsNeighbors(
                 [visited |-> st.visited \cup {nbrs[j].k},
                  levels  |-> Put(st.levels, next_depth,
                                  Get(st.levels, next_depth, {}) \cup {nbrs[j].k}),
                  queue   |-> Append(st.queue, <<nbrs[j].k, next_depth>>)],
                 nbrs, j + 1, depth, min_weight)

\* BfsNeighbors with the weight filter inverted ("if weight > min_weight:
\* continue"): the edges heavier than min_weight are the ones skipped.
BfsNeighbors_FilterInverted(st, nbrs, j, depth, min_weight) ==
    IF j > Len(nbrs) THEN st
    ELSE IF nbrs[j].k \in st.visited THEN BfsNeighbors(st, nbrs, j + 1, depth, min_weight)
    ELSE IF nbrs[j].v > min_weight THEN BfsNeighbors(st, nbrs, j + 1, depth, min_weight)
    ELSE LET next_depth == depth + 1
         IN  BfsNeighbors(
                 [visited |-> st.visited \cup {nbrs[j].k},
                  levels  |-> Put(st.levels, next_depth,
                                  Get(st.levels, next_depth, {}) \cup {nbrs[j].k}),
                  queue   |-> Append(st.queue, <<nbrs[j].k, next_depth>>)],
                 nbrs, j + 1, depth, min_weight)

\* The inner loop of bfs_related over the neighbors of the dequeued item, from
\* entry j on.  st = [visited, queue, levels]; levels is result[start_item].
BfsNeighbors(st, nbrs, j, depth, min_weight) ==
    IF j > Len(nbrs) THEN st
    ELSE IF nbrs[j].k \in st.visited THEN BfsNeighbors(st, nbrs, j + 1, depth, min_weight)
    ELSE IF nbrs[j].v < min_weight THEN BfsNeighbors(st, nbrs, j + 1, depth, min_weight)
    ELSE LET next_depth == depth + 1
         IN  BfsNeighbors(
                 [visited |-> st.visited \cup {nbrs[j].k},
                  levels  |-> Put(st.levels, next_depth,
                                  Get(st.levels, next_depth, {}) \cup {nbrs[j].k}),
                  queue   |-> Append(st.queue, <<nbrs[j].k, next_depth>>)],
                 nbrs, j + 1, depth, min_weight)

\* BfsIteration with the depth test written "depth > max_depth".
BfsIteration_DepthOffByOne(st, g, max_depth, min_weight) ==
    LET current_item == Head(st.queue)[1]
        depth        == Head(st.queue)[2]
        popped       == [st EXCEPT !.queue = Tail(st.queue)]
    IN  IF depth > max_depth
        THEN popped
        ELSE BfsNeighbors(popped, neighbors(g, current_item), 1, depth, min_weight)

\* One iteration of "while queue:": current_item, depth = queue.popleft(), then
\* the depth test and the loop over the neighbors.  The queue is not empty.
BfsIteration(st, g, max_depth, min_weight) ==
    LET current_item == Head(st.queue)[1]
        depth        == Head(st.queue)[2]
        popped       == [st EXCEPT !.queue = Tail(st.queue)]
    IN  IF depth >= max_depth
        THEN popped
        ELSE BfsNeighbors(popped, neighbors(g, current_item), 1, depth, min_weight)

\* while queue: ...
RECURSIVE BfsLoop(_, _, _, _)
BfsLoop(st, g, max_depth, min_weight) ==
    IF st.queue = <<>> THEN st
    ELSE BfsLoop(BfsIteration(st, g, max_depth, min_weight), g, max_depth, min_weight)

\* visited = {start_item}; queue = deque([(start_item, 0)]); result[start_item] = {}
BfsStart(start_item) ==
    [visited |-> {start_item},
     queue   |-> <<<<start_item, 0>>>>,
     levels  |-> <<>>]

\* bfs_related returning the empty dict {} for a start item that is not a node.
bfs_related_EmptyForUnknown(g, start_item, max_depth, min_weight) ==
    IF ~Has(g, start_item) THEN <<>>
    ELSE LET final == BfsLoop(BfsStart(start_item), g, max_depth, min_weight)
         IN  <<[k |-> start_item, v |-> final.levels]>>

\* The returned dict {start_item: {depth: set of items}}.
bfs_related(g, start_item, max_depth, min_weight) ==
    IF ~Has(g, start_item) THEN <<[k |-> start_item, v |-> <<>>]>>
    ELSE LET final == BfsLoop(BfsStart(start_item), g, max_depth, min_weight)
         IN  <<[k |-> start_item, v |-> final.levels]>>

----------------------------------------------------------------------------
(* TransactionLoader *)

\* The whitespace that str.strip() removes (the space character).
Space == 32

\* The value csv.DictReader gives a field that a short row lacks (restval):
\* a value that is no string.
None == <<-1>>

\* The columns load_from_csv reads from every row, in the order it reads them.
Required == <<"Member_number", "Date", "itemDescription">>

RECURSIVE LStrip(_)
LStrip(s) == IF s # <<>> /\ Head(s) = Space THEN LStrip(Tail(s)) ELSE s

RECURSIVE RStrip(_)
RStrip(s) ==
    IF s # <<>> /\ s[Len(s)] = Space THEN RStrip(SubSeq(s, 1, Len(s) - 1)) ELSE s

\* s.strip()
Strip(s) == RStrip(LStrip(s))

\* sorted(list(items)) for a set of strings: ascending by code points.
RECURSIVE SortedList(_)
SortedList(items) ==
    IF items = {} THEN <<>>
    ELSE LET least == CHOOSE x \in items : \A y \in items \ {x} : StrLess(x, y)
         IN  <<least>> \o SortedList(items \ {least})

\* The dict csv.DictReader yields for a data row: the field names zipped with
\* the values, None for the names a short row has no value for; the values
\* beyond the field names are kept under a key that is never read.
DictRow(fieldnames, row) ==
    [i \in DOMAIN fieldnames |->
        [k |-> fieldnames[i], v |-> IF i <= Len(row) THEN row[i] ELSE None]]

\* No exception is pending.
NoError == [raised |-> "", column |-> ""]

\* LoadRow without the "if item:" test: an empty item is added like any other.
LoadRow_NoEmptyTest(st, fieldnames, row) ==
    LET d == DictRow(fieldnames, row)
        missing == {i \in DOMAIN Required : ~Has(d, Required[i])}
        first == CHOOSE i \in missing : \A j \in missing : i <= j
        value == Get(d, "itemDescription", None)
        key == <<Get(d, "Member_number", None), Get(d, "Date", None)>>
    IN  IF row = <<>> THEN st
        ELSE IF missing # {}
        THEN [st EXCEPT !.error = [raised |-> "KeyError", column |-> Required[first]]]
        ELSE IF value = None
        THEN [st EXCEPT !.error = [raised |-> "AttributeError", column |-> ""]]
        ELSE [st EXCEPT !.baskets_dict =
                            Put(st.baskets_dict, key,
                                Get(st.baskets_dict, key, {}) \cup {Strip(value)})]

\* The body of "for row in reader" for one data row.  st.error is the
\* exception raised so far; csv.DictReader skips a row without any field.
LoadRow(st, fieldnames, row) ==
    LET d == DictRow(fieldnames, row)
        missing == {i \in DOMAIN Required : ~Has(d, Required[i])}
        first == CHOOSE i \in missing : \A j \in missing : i <= j
        member_number == Get(d, "Member_number", None)
        date == Get(d, "Date", None)
        value == Get(d, "itemDescription", None)
        item == Strip(value)
        key == <<member_number, date>>
    IN  IF row = <<>> THEN st
        ELSE IF missing # {}
        THEN [st EXCEPT !.error = [raised |-> "KeyError", column |-> Required[first]]]
        ELSE IF value = None
        THEN [st EXCEPT !.error = [raised |-> "AttributeError", column |-> ""]]
        ELSE IF item # <<>>
        THEN [st EXCEPT !.baskets_dict =
                            Put(st.baskets_dict, key,
                                Get(st.baskets_dict, key, {}) \cup {item})]
        ELSE st

\* for row in reader: ..., from data row i on; an exception ends the loop.
RECURSIVE LoadLoop(_, _, _, _)
LoadLoop(st, fieldnames, rows, i) ==
    IF i > Len(rows) \/ st.error # NoError THEN st
    ELSE LoadLoop(LoadRow(st, fieldnames, rows[i]), fieldnames, rows, i + 1)

\* What a call produces: the list returned, or the exception that leaves it.
Returns(baskets) == [raised |-> "", column |-> "", baskets |-> baskets]
Raises(exception, column) ==
    [raised |-> exception, column |-> column, baskets |-> <<>>]

load_from_csv(f) ==
    IF ~f.exists THEN Raises("FileNotFoundError", "")
    ELSE LET st == LoadLoop([baskets_dict |-> <<>>, error |-> NoError],
                            f.fieldnames, f.rows, 1)
         IN  IF st.error.raised = "KeyError"
             THEN Raises("ValueError", st.error.column)
             ELSE IF st.error # NoError
             THEN Raises(st.error.raised, "")
             ELSE Returns([i \in DOMAIN st.baskets_dict |->
                              SortedList(st.baskets_dict[i].v)])

----------------------------------------------------------------------------
(* self.graph after each read operation *)

\* get_weight tests membership and reads with .get: nothing is stored.
get_weight_graph(g, item_a, item_b) == g

\* neighbors written self.graph.setdefault(item, {}): an unknown item gets an
\* empty node.
neighbors_graph_SetDefault(g, item) ==
    IF ~Has(g, item) THEN Put(g, item, <<>>) ELSE g

\* neighbors reads with self.graph.get(item, {}): the default is not stored.
neighbors_graph(g, item) == g

\* unique_edges iterates self.graph and fills the local edges and seen.
unique_edges_graph(g) == g

pair_frequency_graph(g, item_a, item_b) == get_weight_graph(g, item_a, item_b)

often_copurchased_graph(g, item_a, item_b, threshold) ==
    pair_frequency_graph(g, item_a, item_b)

\* sorted() builds a new list from neighbors.items().
top_with_item_graph(g, item, k) == neighbors_graph(g, item)

top_bundles_graph(g, k) == unique_edges_graph(g)

\* The while loop calls neighbors once per dequeued item below max_depth and
\* writes to the local result, visited and queue only.
RECURSIVE BfsLoopGraph(_, _, _, _)
BfsLoopGraph(st, g, max_depth, min_weight) ==
    IF st.queue = <<>> THEN g
    ELSE LET current_item == Head(st.queue)[1]
             depth        == Head(st.queue)[2]
             g1 == IF depth >= max_depth THEN g
                   ELSE neighbors_graph(g, current_item)
         IN  BfsLoopGraph(BfsIteration(st, g, max_depth, min_weight),
                          g1, max_depth, min_weight)

bfs_related_graph(g, start_item, max_depth, min_weight) ==
    IF ~Has(g, start_item) THEN g
    ELSE BfsLoopGraph(BfsStart(start_item), g, max_depth, min_weight)

----------------------------------------------------------------------------
(* The CSV files *)

\* No file at the path.
NoFile == [exists |-> FALSE, fieldnames |-> <<>>, rows |-> <<>>]

\* load_from_csv was not called yet.
NotCalled == [raised |-> "not called", column |-> "", baskets |-> <<>>]

\* The header rows: any of the required names, in any order.
Headers == {h \in SeqsUpTo(Range(Required), Len(Required)) : IsDupFree(h)}

\* The field values: the member numbers "1" and "1 ", the date "d", and the
\* item descriptions " ", "a", " a" and "b".
Members    == {<<49>>, <<49, Space>>}
Dates      == {<<100>>}
ItemValues == {<<Space>>, <<97>>, <<Space, 97>>, <<98>>}

\* The data rows: three fields, or a row cut short, or a blank line.
Rows ==
    {<<m, d, i>> : m \in Members, d \in Dates, i \in ItemValues}
        \cup {<<>>, <<<<49>>>>, <<<<49>>, <<100>>>>}

CsvFiles ==
    {NoFile} \cup
    {[exists |-> TRUE, fieldnames |-> h, rows |-> r] :
        h \in Headers, r \in SeqsUpTo(Rows, MaxRows)}

\* main() was not started.
NotRunning == [pc |-> "idle", bound |-> FALSE, dispatched |-> ""]

----------------------------------------------------------------------------
(* The state machine *)

\* The ordered pairs of distinct items.
Pairs == {p \in Items \X Items : p[1] # p[2]}

\* CooccurrenceGraph(): the empty graph, no basket applied yet.
Init ==
    /\ graph = <<>>
    /\ together = [p \in Pairs |-> 0]
    /\ dupFree = TRUE
    /\ last = "none"
    /\ pending = <<>>
    /\ file = NoFile
    /\ result = NotCalled
    /\ applied = <<>>
    /\ main = NotRunning

\* One call graph.update_from_basket(basket), for any list of items.
Update ==
    \E basket \in Baskets :
        /\ graph' = update_from_basket(graph, basket)
        /\ \A p \in Pairs : get_weight(graph', p[1], p[2]) <= MaxWeight
        /\ together' = [p \in Pairs |->
                           IF p[1] \in Range(basket) /\ p[2] \in Range(basket)
                           THEN together[p] + 1 ELSE together[p]]
        /\ dupFree' = (dupFree /\ IsDupFree(basket))
        /\ last' = "update"
        /\ UNCHANGED <<pending, file, result, applied, main>>

Next == Update

Spec == Init /\ [][Next]_vars

\* The read operations, each called with any arguments, known or unknown.
\* Their return values are the operators above; the step records what the
\* call leaves in self.graph.
Returned == /\ last' = "query"
            /\ UNCHANGED <<together, dupFree, pending, file, result, applied, main>>

GetWeight ==
    \E a, b \in QueryItems :
        graph' = get_weight_graph(graph, a, b) /\ Returned

Neighbors ==
    \E item \in QueryItems :
        graph' = neighbors_graph(graph, item) /\ Returned

UniqueEdges ==
    graph' = unique_edges_graph(graph) /\ Returned

PairFrequency ==
    \E a, b \in QueryItems :
        graph' = pair_frequency_graph(graph, a, b) /\ Returned

OftenCopurchased ==
    \E a, b \in QueryItems, threshold \in MinWeightValues :
        graph' = often_copurchased_graph(graph, a, b, threshold) /\ Returned

TopWithItem ==
    \E item \in QueryItems, k \in KValues :
        graph' = top_with_item_graph(graph, item, k) /\ Returned

TopBundles ==
    \E k \in KValues :
        graph' = top_bundles_graph(graph, k) /\ Returned

BfsRelated ==
    \E start_item \in QueryItems, max_depth \in DepthValues,
       min_weight \in MinWeightValues :
        graph' = bfs_related_graph(graph, start_item, max_depth, min_weight)
        /\ Returned

Query ==
    \/ GetWeight
    \/ Neighbors
    \/ UniqueEdges
    \/ PairFrequency
    \/ OftenCopurchased
    \/ TopWithItem
    \/ TopBundles
    \/ BfsRelated

NextQuery == Update \/ Query

\* Updates interleaved with reads.
QuerySpec == Init /\ [][NextQuery]_vars

\* One call TransactionLoader.load_from_csv(filepath), for any file.
LoaderInit ==
    /\ graph = <<>>
    /\ together = [p \in Pairs |-> 0]
    /\ dupFree = TRUE
    /\ last = "none"
    /\ pending = <<>>
    /\ file \in CsvFiles
    /\ result = NotCalled
    /\ applied = <<>>
    /\ main = NotRunning

Load ==
    /\ result = NotCalled
    /\ result' = load_from_csv(file)
    /\ UNCHANGED <<graph, together, dupFree, last, pending, file, applied, main>>

LoaderNext == Load

LoaderSpec == LoaderInit /\ [][LoaderNext]_vars

----------------------------------------------------------------------------
(* Lists of baskets applied to an empty graph *)

\* graph = CooccurrenceGraph(); for basket in baskets:
\* graph.update_from_basket(basket): the graph after the loop.
RECURSIVE BuildLoop(_, _, _)
BuildLoop(g, baskets, i) ==
    IF i > Len(baskets) THEN g
    ELSE BuildLoop(update_from_basket(g, baskets[i]), baskets, i + 1)

BuildGraph(baskets) == BuildLoop(<<>>, baskets, 1)

\* The baskets of the lists: two or more items, none repeated.
OrderBaskets == {b \in Baskets : IsDupFree(b) /\ Len(b) >= 2}

OrderInit ==
    /\ graph = <<>>
    /\ together = [p \in Pairs |-> 0]
    /\ dupFree = TRUE
    /\ last = "none"
    /\ pending = <<>>
    /\ file = NoFile
    /\ result = NotCalled
    /\ applied = <<>>
    /\ main = NotRunning

\* The next basket of the list is applied.
Apply ==
    \E basket \in OrderBaskets :
        /\ Len(applied) < MaxBaskets
        /\ graph' = update_from_basket(graph, basket)
        /\ applied' = Append(applied, basket)
        /\ last' = "update"
        /\ UNCHANGED <<together, dupFree, pending, file, result, main>>

OrderNext == Apply

OrderSpec == OrderInit /\ [][OrderNext]_vars

----------------------------------------------------------------------------
(* main(): the interactive session *)

\* load_dataset(csv_path): (query_service, graph) built from the file, or
\* (None, None) after any exception.  bound tells which; graph is the dict of
\* the graph built.
load_dataset(f) ==
    LET loaded == load_from_csv(f)
    IN  IF loaded.raised # "" THEN [bound |-> FALSE, graph |-> <<>>]
        ELSE [bound |-> TRUE, graph |-> BuildGraph(loaded.baskets)]

\* What can be at csv_path: nothing, or a file with the full header.
Datasets == {f \in CsvFiles : f.exists => f.fieldnames = Required}

\* The menu options that run a query handler.
QueryChoices == {"1", "2", "3", "4", "5"}

\* main() is entered; the variable graph is the dict of main's graph object,
\* empty while main's query_service and graph are not bound to objects.
MainInit ==
    /\ graph = <<>>
    /\ together = [p \in Pairs |-> 0]
    /\ dupFree = TRUE
    /\ last = "none"
    /\ pending = <<>>
    /\ file \in Datasets
    /\ result = NotCalled
    /\ applied = <<>>
    /\ main = [pc |-> "start", bound |-> FALSE, dispatched |-> ""]

\* The existence check and the initial load: sys.exit(1) when the file is
\* missing or load_dataset returned (None, None).
Start ==
    /\ main.pc = "start"
    /\ LET loaded == load_dataset(file)
       IN  IF ~file.exists \/ ~loaded.bound
           THEN /\ main' = [main EXCEPT !.pc = "exit"]
                /\ graph' = graph
           ELSE /\ main' = [main EXCEPT !.pc = "menu", !.bound = TRUE]
                /\ graph' = loaded.graph
    /\ UNCHANGED <<together, dupFree, last, pending, file, result, applied>>

\* While main waits at the menu the dataset file is replaced or removed.
DatasetChanges ==
    /\ main.pc = "menu"
    /\ file' \in Datasets \ {file}
    /\ UNCHANGED <<graph, together, dupFree, last, pending, result, applied, main>>

\* Option "6": query_service, graph = load_dataset(csv_path); a failure is
\* reported and the loop goes on.
Reload ==
    /\ main.pc = "menu"
    /\ LET loaded == load_dataset(file)
       IN  /\ main' = [main EXCEPT !.bound = loaded.bound]
           /\ graph' = loaded.graph
    /\ UNCHANGED <<together, dupFree, last, pending, file, result, applied>>

\* Options "1" to "5": the handler is called with query_service and graph.
\* With None it raises AttributeError at its first use of them, which ends
\* main; handlers "1" to "4" return before that when the input is not usable.
Dispatch ==
    \E choice \in QueryChoices, usable \in BOOLEAN :
        /\ main.pc = "menu"
        /\ main' = [main EXCEPT
                       !.dispatched = IF main.bound THEN "bound" ELSE "None",
                       !.pc = IF ~main.bound /\ (usable \/ choice = "5")
                              THEN "crashed" ELSE "menu"]
        /\ UNCHANGED <<graph, together, dupFree, last, pending, file, result, applied>>

\* Option "0".
Quit ==
    /\ main.pc = "menu"
    /\ main' = [main EXCEPT !.pc = "exit"]
    /\ UNCHANGED <<graph, together, dupFree, last, pending, file, result, applied>>

\* Any other input: a message, and the menu again.
InvalidChoice ==
    /\ main.pc = "menu"
    /\ UNCHANGED vars

MainNext ==
    \/ Start
    \/ DatasetChanges
    \/ Reload
    \/ Dispatch
    \/ Quit
    \/ InvalidChoice

MainSpec == MainInit /\ [][MainNext]_vars

----------------------------------------------------------------------------
(* The fixture of tests/test_fr3_fr4_fr5_queries.py *)

\* The item names, as their code points.
bread  == <<98, 114, 101, 97, 100>>
butter == <<98, 117, 116, 116, 101, 114>>
eggs   == <<101, 103, 103, 115>>
milk   == <<109, 105, 108, 107>>

\* setUp's update_from_basket calls: the basket and how often it is passed.
SetUpBaskets ==
    << [basket |-> <<bread, milk>>,   times |-> 3],
       [basket |-> <<bread, eggs>>,   times |-> 2],
       [basket |-> <<milk, eggs>>,    times |-> 1],
       [basket |-> <<bread, butter>>, times |-> 1] >>

SetUpInit ==
    /\ graph = <<>>
    /\ together = [p \in Pairs |-> 0]
    /\ dupFree = TRUE
    /\ last = "none"
    /\ pending = [i \in DOMAIN SetUpBaskets |-> SetUpBaskets[i].times]
    /\ file = NoFile
    /\ result = NotCalled
    /\ applied = <<>>
    /\ main = NotRunning

\* One of setUp's calls; the calls are made in any order.
SetUpUpdate ==
    \E i \in DOMAIN SetUpBaskets :
        /\ pending[i] > 0
        /\ graph' = update_from_basket(graph, SetUpBaskets[i].basket)
        /\ pending' = [pending EXCEPT ![i] = @ - 1]
        /\ last' = "update"
        /\ UNCHANGED <<together, dupFree, file, result, applied, main>>

SetUpNext == SetUpUpdate

SetUpSpec == SetUpInit /\ [][SetUpNext]_vars

SetUpDone == \A i \in DOMAIN pending : pending[i] = 0

----------------------------------------------------------------------------
(* Properties of the co-occurrence graph *)

\* C1: after any sequence of update_from_basket calls from the empty graph,
\* get_weight(a, b) = get_weight(b, a) for every pair of items a, b.
WeightSymmetric ==
    \A a, b \in QueryItems : get_weight(graph, a, b) = get_weight(graph, b, a)

\* C1 witness: two items that were updated together, with a weight above 1.
WeightSymmetric_Witness ==
    /\ get_weight(graph, <<1>>, <<2>>) = 2
    /\ get_weight(graph, <<2>>, <<1, 2>>) = 1

\* C2: as long as every basket applied was duplicate-free, the weight of a
\* pair of distinct items is exactly the number of baskets applied that
\* contain both items.
WeightCountsBaskets ==
    dupFree => \A p \in Pairs : get_weight(graph, p[1], p[2]) = together[p]

\* C2 witness: duplicate-free baskets only, one pair seen in two of them
\* and another pair in one.
WeightCountsBaskets_Witness ==
    /\ dupFree
    /\ together[<<1>>, <<2>>] = 2
    /\ together[<<1>>, <<1, 2>>] = 1

\* C3 (as claimed): one update_from_basket call, for any list (repeated items
\* included), decrements no weight, raises no weight by more than 1, and
\* raises the weight of every pair of distinct items of the basket by exactly 1
\* (so a new pair is created with weight exactly 1).
UpdateAddsAtMostOne ==
    [][\A basket \in Baskets :
          graph' = update_from_basket(graph, basket) =>
              \A p \in Pairs :
                  LET before == get_weight(graph, p[1], p[2])
                      after  == get_weight(graph', p[1], p[2])
                  IN  /\ after >= before
                      /\ after <= before + 1
                      /\ (p[1] \in Range(basket) /\ p[2] \in Range(basket))
                            => after = before + 1]_vars

\* C4: get_weight(x, x) = 0 for every item x in every reachable state,
\* also after baskets that contain an item more than once.
NoSelfLoops ==
    \A x \in QueryItems : get_weight(graph, x, x) = 0

\* C4 witness: a basket that repeated an item has been applied (the pair's
\* weight is above the number of baskets that contain the pair).
NoSelfLoops_Witness ==
    /\ ~dupFree
    /\ together[<<1>>, <<2>>] = 1
    /\ get_weight(graph, <<1>>, <<2>>) = 2

\* C5: one basket of n distinct items applied to the empty graph yields
\* exactly n(n-1)/2 entries in unique_edges(), each of weight 1, one for every
\* unordered pair of the basket's items.
OneBasketEdges ==
    [][graph = <<>> =>
          \A basket \in Baskets :
              (IsDupFree(basket) /\ graph' = update_from_basket(graph, basket)) =>
                  LET edges == unique_edges(graph')
                      n     == Len(basket)
                  IN  /\ Len(edges) = (n * (n - 1)) \div 2
                      /\ \A i \in DOMAIN edges : edges[i][3] = 1
                      /\ \A a, b \in Range(basket) :
                            a # b => Cardinality({i \in DOMAIN edges :
                                        {edges[i][1], edges[i][2]} = {a, b}}) = 1]_vars

\* C5 witness: the state that one basket of three distinct items leaves.
OneBasketEdges_Witness ==
    /\ graph = update_from_basket(<<>>, << <<2>>, <<1>>, <<1, 2>> >>)
    /\ Len(unique_edges(graph)) = 3
    /\ \A p \in Pairs : together[p] = 1

\* C6: unique_edges() returns exactly one triple (a, b, w) per unordered pair
\* {a, b} of positive weight, with a < b and w = get_weight(a, b); no pair
\* appears twice in either orientation and no pair of positive weight is missing.
UniqueEdgesCanonical ==
    LET edges == unique_edges(graph)
    IN  /\ \A i \in DOMAIN edges :
              /\ StrLess(edges[i][1], edges[i][2])
              /\ edges[i][3] = get_weight(graph, edges[i][1], edges[i][2])
              /\ edges[i][3] > 0
        /\ \A i, j \in DOMAIN edges :
              i # j => {edges[i][1], edges[i][2]} # {edges[j][1], edges[j][2]}
        /\ \A a, b \in QueryItems :
              get_weight(graph, a, b) > 0 =>
                  \E i \in DOMAIN edges : {edges[i][1], edges[i][2]} = {a, b}

\* C6 witness: three edges, not all of the same weight.
UniqueEdgesCanonical_Witness ==
    /\ Len(unique_edges(graph)) = 3
    /\ get_weight(graph, <<2>>, <<1>>) = 2
    /\ get_weight(graph, <<1, 2>>, <<1>>) = 1

----------------------------------------------------------------------------
(* Properties of the query service *)

\* The canonical edges of the graph: <<a, b, w>> with a < b and w = weight(a, b) > 0.
CanonicalEdges ==
    {<<a, b, get_weight(graph, a, b)>> : a, b \in QueryItems} \cap
    {e \in QueryItems \X QueryItems \X (1..MaxWeight + 1) : StrLess(e[1], e[2])}

\* <<a, b, w>> ranks strictly before <<c, d, v>>: heavier first, then (a, b) ascending.
EdgeRanksBefore(x, y) ==
    \/ x[3] > y[3]
    \/ /\ x[3] = y[3]
       /\ \/ StrLess(x[1], y[1])
          \/ (x[1] = y[1] /\ StrLess(x[2], y[2]))

\* C7: top_bundles(k), k >= 1, is the first min(k, number of edges) elements
\* of the canonical edges ranked by weight descending and, among equal
\* weights, by (a, b) ascending.
TopBundlesRanked ==
    \A k \in KValues :
        LET r == top_bundles(graph, k)
        IN  /\ Len(r) = Min(k, Cardinality(CanonicalEdges))
            /\ \A i \in DOMAIN r : r[i] \in CanonicalEdges
            /\ \A i, j \in DOMAIN r : i < j => EdgeRanksBefore(r[i], r[j])
            /\ \A e \in CanonicalEdges \ Range(r) :
                  \A i \in DOMAIN r : EdgeRanksBefore(r[i], e)

\* C7 witness: three edges, one heavier and two tied; top_bundles(2) keeps
\* the heavier one and the first of the tied ones in name order, although the
\* other tied edge entered the graph first.
TopBundlesRanked_Witness ==
    /\ Len(unique_edges(graph)) = 3
    /\ unique_edges(graph)[1] = << <<1, 2>>, <<2>>, 1 >>
    /\ top_bundles(graph, 2) = << << <<1>>, <<2>>, 2 >>, << <<1>>, <<1, 2>>, 1 >> >>

\* The (neighbor, weight) pairs of an item.
NeighborPairs(item) ==
    {<<n, get_weight(graph, item, n)>> : n \in {m \in QueryItems : get_weight(graph, item, m) > 0}}

\* <<n, w>> ranks strictly before <<m, v>>: heavier first, then name ascending.
ItemRanksBefore(x, y) ==
    \/ x[2] > y[2]
    \/ (x[2] = y[2] /\ StrLess(x[1], y[1]))

\* C8: top_with_item(item, k), k >= 1, is the first min(k, number of
\* neighbors) elements of the (neighbor, weight) pairs of item ranked by weight
\* descending and, among equal weights, by neighbor name ascending; all the
\* neighbors are returned when k exceeds their number.
TopWithItemRanked ==
    \A item \in QueryItems : \A k \in KValues :
        LET r == top_with_item(graph, item, k)
        IN  /\ Len(r) = Min(k, Cardinality(NeighborPairs(item)))
            /\ \A i \in DOMAIN r : r[i] \in NeighborPairs(item)
            /\ \A i, j \in DOMAIN r : i < j => ItemRanksBefore(r[i], r[j])
            /\ \A e \in NeighborPairs(item) \ Range(r) :
                  \A i \in DOMAIN r : ItemRanksBefore(r[i], e)

\* C8 witness: an item with a lighter neighbor inserted first and a heavier
\* one second; k = 1 keeps the heavier, k = 3 returns both.
TopWithItemRanked_Witness ==
    /\ ItemsOf(neighbors(graph, <<2>>)) = << << <<1, 2>>, 1 >>, << <<1>>, 2 >> >>
    /\ top_with_item(graph, <<2>>, 1) = << << <<1>>, 2 >> >>
    /\ top_with_item(graph, <<2>>, 3) = << << <<1>>, 2 >>, << <<1, 2>>, 1 >> >>

\* The items within d hops of start over the edges of weight >= min_weight.
RECURSIVE Within(_, _, _)
Within(start, min_weight, d) ==
    IF d = 0 THEN {start}
    ELSE LET near == Within(start, min_weight, d - 1)
         IN  near \cup {n \in QueryItems : \E m \in near :
                            /\ get_weight(graph, m, n) > 0
                            /\ get_weight(graph, m, n) >= min_weight}

\* The items whose shortest hop distance from start is exactly d >= 1.
AtDistance(start, min_weight, d) ==
    Within(start, min_weight, d) \ Within(start, min_weight, d - 1)

\* C9: for a start item present in the graph, bfs_related(start, max_depth,
\* min_weight)[start][d] is, for every d in 1..max_depth, exactly the set of
\* items at shortest hop distance d from start over the edges of weight >=
\* min_weight; depths with no item are absent, and no other depth is present.
BfsShortestHops ==
    \A start \in QueryItems : Has(graph, start) =>
        \A max_depth \in DepthValues : \A min_weight \in MinWeightValues :
            LET r      == bfs_related(graph, start, max_depth, min_weight)
                levels == r[1].v
            IN  /\ Len(r) = 1
                /\ r[1].k = start
                /\ Keys(levels) \subseteq 1..max_depth
                /\ \A d \in 1..max_depth :
                      IF AtDistance(start, min_weight, d) = {}
                      THEN ~Has(levels, d)
                      ELSE Get(levels, d, {}) = AtDistance(start, min_weight, d)

\* C9 witness: an item joined to start by a weak direct edge and by a path of
\* two strong edges: depth 1 when the weak edge is allowed, depth 2 when not.
BfsShortestHops_Witness ==
    /\ get_weight(graph, <<1>>, <<1, 2>>) = 1
    /\ bfs_related(graph, <<1>>, 2, 1)[1].v = <<[k |-> 1, v |-> {<<2>>, <<1, 2>>}]>>
    /\ bfs_related(graph, <<1>>, 2, 2)[1].v =
           <<[k |-> 1, v |-> {<<2>>}], [k |-> 2, v |-> {<<1, 2>>}]>>

\* C10: in the result of bfs_related the depth sets are pairwise disjoint and
\* the start item is in none of them, for any graph, start, max_depth and
\* min_weight.
BfsDepthsDisjoint ==
    \A start \in QueryItems : \A max_depth \in DepthValues : \A min_weight \in MinWeightValues :
        LET levels == bfs_related(graph, start, max_depth, min_weight)[1].v
        IN  /\ \A i, j \in DOMAIN levels :
                  i # j => /\ levels[i].k # levels[j].k
                           /\ levels[i].v \cap levels[j].v = {}
            /\ \A i \in DOMAIN levels : start \notin levels[i].v

\* C10 witness: a triangle explored to depth 3: every item is a neighbor of
\* an item of depth 1, yet the result has depth 1 only.
BfsDepthsDisjoint_Witness ==
    /\ \A p \in Pairs : get_weight(graph, p[1], p[2]) > 0
    /\ bfs_related(graph, <<2>>, 3, 1)[1].v = <<[k |-> 1, v |-> {<<1>>, <<1, 2>>}]>>

\* The state of the loop of bfs_related after its first n iterations (or at
\* its end, when it ends sooner).
RECURSIVE BfsAfter(_, _, _, _, _)
BfsAfter(st, g, max_depth, min_weight, n) ==
    IF n = 0 \/ st.queue = <<>> THEN st
    ELSE BfsAfter(BfsIteration(st, g, max_depth, min_weight), g, max_depth, min_weight, n - 1)

\* The items dequeued by the first n iterations of the loop, in order.
RECURSIVE BfsDequeued(_, _, _, _, _)
BfsDequeued(st, g, max_depth, min_weight, n) ==
    IF n = 0 \/ st.queue = <<>> THEN <<>>
    ELSE <<Head(st.queue)[1]>> \o
         BfsDequeued(BfsIteration(st, g, max_depth, min_weight), g, max_depth, min_weight, n - 1)

\* C11: bfs_related terminates on every graph, max_depth and min_weight:
\* after at most as many dequeue steps as the graph has items the queue is
\* empty; no item is dequeued (hence enqueued) twice, and the items visited
\* are exactly the items dequeued.
BfsTerminates ==
    \A start \in QueryItems : Has(graph, start) =>
        \A max_depth \in DepthValues : \A min_weight \in MinWeightValues :
            LET n        == Len(graph)
                final    == BfsAfter(BfsStart(start), graph, max_depth, min_weight, n)
                dequeued == BfsDequeued(BfsStart(start), graph, max_depth, min_weight, n)
            IN  /\ final.queue = <<>>
                /\ IsDupFree(dequeued)
                /\ Range(dequeued) = final.visited

\* C11 witness: a complete graph on three items, explored with no effective
\* depth limit: every item is dequeued, in as many steps as there are items.
BfsTerminates_Witness ==
    /\ \A p \in Pairs : get_weight(graph, p[1], p[2]) > 0
    /\ BfsDequeued(BfsStart(<<1, 2>>), graph, 3, 1, Len(graph)) \in
           {<< <<1, 2>>, <<1>>, <<2>> >>, << <<1, 2>>, <<2>>, <<1>> >>}
    /\ BfsAfter(BfsStart(<<1, 2>>), graph, 3, 1, Len(graph) - 1).queue # <<>>

\* C12: every depth key of bfs_related(start, max_depth, min_weight)[start]
\* lies in 1..max_depth, and with max_depth = 0 the result is {start: {}}.
BfsDepthKeysBounded ==
    \A start \in QueryItems : \A max_depth \in DepthValues : \A min_weight \in MinWeightValues :
        LET r == bfs_related(graph, start, max_depth, min_weight)
        IN  /\ \A i \in DOMAIN r : \A d \in Keys(r[i].v) : 1 <= d /\ d <= max_depth
            /\ max_depth = 0 => r = <<[k |-> start, v |-> <<>>]>>

\* C12 witness: an item two hops from the start item is left out by
\* max_depth = 1, and the start item has neighbors that max_depth = 0 leaves out.
BfsDepthKeysBounded_Witness ==
    /\ AtDistance(<<1>>, 1, 2) = {<<1, 2>>}
    /\ bfs_related(graph, <<1>>, 1, 1) = <<[k |-> <<1>>, v |-> <<[k |-> 1, v |-> {<<2>>}]>>]>>
    /\ bfs_related(graph, <<1>>, 0, 1) = <<[k |-> <<1>>, v |-> <<>>]>>

\* C13: bfs_related with a start item that is not a node of the graph returns
\* exactly {start: {}}, whatever max_depth and min_weight.
BfsUnknownStart ==
    \A start \in QueryItems : ~Has(graph, start) =>
        \A max_depth \in DepthValues : \A min_weight \in MinWeightValues :
            bfs_related(graph, start, max_depth, min_weight) = <<[k |-> start, v |-> <<>>]>>

\* C13 witness: a graph with nodes, queried for an item of the basket universe
\* that never co-occurred with another item and for an item never seen.
BfsUnknownStart_Witness ==
    /\ graph # <<>>
    /\ ~Has(graph, <<1, 2>>)
    /\ bfs_related(graph, <<1, 2>>, 2, 1) = <<[k |-> <<1, 2>>, v |-> <<>>]>>
    /\ bfs_related(graph, <<3>>, 2, 1) = <<[k |-> <<3>>, v |-> <<>>]>>

\* a and b were never in the same basket (or are one item, or are not both
\* items that occurred in baskets).
NeverTogether(a, b) ==
    \/ a = b
    \/ <<a, b>> \notin Pairs
    \/ together[<<a, b>>] = 0

\* C14: get_weight(a, b) never fails; it is 0 whenever a is unknown, b is
\* unknown or a and b were never in the same basket, and otherwise it is the
\* count stored for the pair, the same in both directions.
GetWeightTotal ==
    \A a, b \in QueryItems :
        LET w == get_weight(graph, a, b)
        IN  /\ w # KeyError
            /\ IF ~Has(graph, a) \/ ~Has(graph, b) \/ NeverTogether(a, b)
               THEN w = 0
               ELSE /\ w >= 1
                    /\ w >= together[<<a, b>>]
                    /\ \E i \in DOMAIN graph : \E j \in DOMAIN graph[i].v :
                          /\ graph[i].k = a
                          /\ graph[i].v[j].k = b
                          /\ graph[i].v[j].v = w
                    /\ \E i \in DOMAIN graph : \E j \in DOMAIN graph[i].v :
                          /\ graph[i].k = b
                          /\ graph[i].v[j].k = a
                          /\ graph[i].v[j].v = w

\* C14 witness: a pair with a stored count of 2, and two known items that
\* were never in the same basket.
GetWeightTotal_Witness ==
    /\ get_weight(graph, <<1>>, <<2>>) = 2
    /\ Has(graph, <<1, 2>>)
    /\ together[<<1>>, <<1, 2>>] = 0
    /\ get_weight(graph, <<1, 2>>, <<1>>) = 0

\* C15: neighbors(item) is a mapping whose keys are exactly the items n with
\* get_weight(item, n) > 0, each mapped to get_weight(item, n); for an item
\* that is not in the graph it is the empty mapping.
NeighborsMatchWeights ==
    \A item \in QueryItems :
        LET nbrs == neighbors(graph, item)
        IN  /\ ~Has(graph, item) => nbrs = <<>>
            /\ \A i, j \in DOMAIN nbrs : i # j => nbrs[i].k # nbrs[j].k
            /\ Keys(nbrs) = {n \in QueryItems : get_weight(graph, item, n) > 0}
            /\ \A i \in DOMAIN nbrs : nbrs[i].v = get_weight(graph, item, nbrs[i].k)

\* C15 witness: an item with two neighbors of different weights, beside an
\* item that is not in the graph.
NeighborsMatchWeights_Witness ==
    /\ neighbors(graph, <<2>>) = <<[k |-> <<1>>, v |-> 2], [k |-> <<1, 2>>, v |-> 1]>>
    /\ neighbors(graph, <<3>>) = <<>>

\* C16: update_from_basket with a basket of size 0 or 1 is a no-op: the
\* adjacency structure is unchanged, the single item of a size-1 basket is
\* not added as a node, and top_with_item on it returns [].
SmallBasketNoOp ==
    \A basket \in Baskets :
        Len(basket) <= 1 =>
            LET after == update_from_basket(graph, basket)
            IN  /\ after = graph
                /\ \A i \in DOMAIN basket :
                       ~Has(graph, basket[i]) =>
                           /\ ~Has(after, basket[i])
                           /\ \A k \in KValues :
                                  top_with_item(after, basket[i], k) = <<>>

\* C16 witness: a non-empty graph that lacks an item, on which the size-1
\* basket of that item is applied.
SmallBasketNoOp_Witness ==
    /\ graph # <<>>
    /\ ~Has(graph, <<1, 2>>)
    /\ update_from_basket(graph, << <<1, 2>> >>) = graph
    /\ top_with_item(update_from_basket(graph, << <<1, 2>> >>), <<1, 2>>, 1) = <<>>

\* C17: the graph grows monotonically: across update_from_basket calls no
\* node and no edge is ever lost, and no pair's weight is lower after a call
\* than before it.
GraphGrows ==
    [][/\ Keys(graph) \subseteq Keys(graph')
       /\ \A a \in Keys(graph) :
              Keys(neighbors(graph, a)) \subseteq Keys(neighbors(graph', a))
       /\ \A a, b \in QueryItems :
              get_weight(graph', a, b) >= get_weight(graph, a, b)]_vars

\* C17 witness: a graph built by several updates: one pair was incremented
\* twice and a third node joined.
GraphGrows_Witness ==
    /\ get_weight(graph, <<1>>, <<2>>) = 2
    /\ get_weight(graph, <<1>>, <<1, 2>>) = 1
    /\ get_weight(graph, <<2>>, <<1, 2>>) = 0

\* C18: no query operation (pair_frequency, often_copurchased, top_with_item,
\* top_bundles, bfs_related, get_weight, neighbors, unique_edges) changes the
\* graph: after any query, with known or unknown arguments, the nodes and all
\* weights are what they were before, and no node exists for an unknown item.
QueriesKeepGraph ==
    [][last' = "query" => graph' = graph]_vars

\* C18 witness: a query has returned on a graph that has nodes and lacks
\* an item.
QueriesKeepGraph_Witness ==
    /\ last = "query"
    /\ Len(graph) = 2
    /\ ~Has(graph, <<1, 2>>)

\* The thresholds often_copurchased is checked for.
ThresholdValues == (-1)..(MaxWeight + 1)

\* C19: often_copurchased(a, b, threshold) is true if and only if
\* pair_frequency(a, b) >= threshold; for a pair with no recorded
\* co-occurrence (weight 0, unknown items included) it is false for every
\* threshold >= 1.
OftenCopurchasedThreshold ==
    \A a, b \in QueryItems : \A threshold \in ThresholdValues :
        LET often == often_copurchased(graph, a, b, threshold)
        IN  /\ often <=> (pair_frequency(graph, a, b) >= threshold)
            /\ often <=> (get_weight(graph, a, b) >= threshold)
            /\ (threshold >= 1 /\ (NeverTogether(a, b) \/ ~Has(graph, a) \/ ~Has(graph, b)))
                   => ~often

\* C19 witness: a pair recorded twice, true at threshold 2 and false at 3,
\* beside a pair of known items never recorded together.
OftenCopurchasedThreshold_Witness ==
    /\ pair_frequency(graph, <<1>>, <<2>>) = 2
    /\ often_copurchased(graph, <<1>>, <<2>>, 2)
    /\ ~often_copurchased(graph, <<1>>, <<2>>, 3)
    /\ Has(graph, <<1, 2>>)
    /\ pair_frequency(graph, <<2>>, <<1, 2>>) = 0
    /\ ~often_copurchased(graph, <<2>>, <<1, 2>>, 1)

\* The values of k the empty results are checked for: 0 and a negative k too.
AnyKValues == (-1)..MaxK

\* C20: query-time absence is never an error: top_with_item on an item that
\* is not in the graph returns the empty list, and top_bundles on an empty
\* graph returns the empty list, for every k.
AbsenceIsEmpty ==
    \A k \in AnyKValues :
        /\ \A item \in QueryItems :
               ~Has(graph, item) => top_with_item(graph, item, k) = <<>>
        /\ graph = <<>> => top_bundles(graph, k) = <<>>

\* C20 witness: a graph with nodes that lacks an item that occurs in baskets,
\* asked for the top 2 of that item and of an item no basket holds.
AbsenceIsEmpty_Witness ==
    /\ graph # <<>>
    /\ ~Has(graph, <<2>>)
    /\ top_with_item(graph, <<2>>, 2) = <<>>
    /\ top_with_item(graph, <<3>>, 2) = <<>>

\* C21: after the baskets [bread,milk] three times, [bread,eggs] twice,
\* [milk,eggs] once and [bread,butter] once were applied to an empty graph,
\* pair_frequency(bread, milk) = 3, top_with_item(bread, 5) is
\* [(milk,3),(eggs,2),(butter,1)], and top_bundles(10) has exactly 4 entries,
\* the first being (bread, milk, 3).
SetUpResults ==
    SetUpDone =>
        /\ pair_frequency(graph, bread, milk) = 3
        /\ top_with_item(graph, bread, 5) = << <<milk, 3>>, <<eggs, 2>>, <<butter, 1>> >>
        /\ Len(top_bundles(graph, 10)) = 4
        /\ top_bundles(graph, 10)[1] = <<bread, milk, 3>>

\* C21 witness: all seven calls were made, with butter inserted as a
\* neighbor of bread before milk was.
SetUpResults_Witness ==
    /\ SetUpDone
    /\ Len(graph) = 4
    /\ neighbors(graph, bread)[1].k = butter

\* C27: in every reachable state of the adjacency structure every key has a
\* non-empty neighbor map, every stored weight is >= 1, no key has itself as
\* a neighbor, and b is a neighbor of a exactly when a is a neighbor of b;
\* hence an item is a node if and only if it has co-occurred with at least
\* one other item.
AdjacencyWellFormed ==
    /\ \A i \in DOMAIN graph :
           /\ graph[i].v # <<>>
           /\ \A j \in DOMAIN graph[i].v :
                  /\ graph[i].v[j].v >= 1
                  /\ graph[i].v[j].k # graph[i].k
                  /\ Has(neighbors(graph, graph[i].v[j].k), graph[i].k)
    /\ \A a \in QueryItems :
           Has(graph, a) <=>
               (a \in Items /\ \E b \in Items \ {a} : together[<<a, b>>] > 0)

\* C27 witness: two items are nodes with a weight of 2, and the third item,
\* so far passed only in baskets without another item, is none.
AdjacencyWellFormed_Witness ==
    /\ last = "update"
    /\ neighbors(graph, <<1>>) = <<[k |-> <<2>>, v |-> 2]>>
    /\ neighbors(graph, <<2>>) = <<[k |-> <<1>>, v |-> 2]>>
    /\ ~Has(graph, <<1, 2>>)

\* The items in the depth sets of a bfs_related result.
Found(levels) == UNION {levels[i].v : i \in DOMAIN levels}

\* C28: for a fixed graph, start item and max_depth, raising min_weight never
\* adds items to the BFS result: the union of the depth sets for min_weight
\* w + 1 is a subset of the union for w, and no item is reported at a
\* shallower depth with the higher min_weight than with the lower one.
BfsMinWeightMonotone ==
    \A start \in QueryItems : \A max_depth \in DepthValues : \A w \in MinWeightValues :
        LET low  == bfs_related(graph, start, max_depth, w)[1].v
            high == bfs_related(graph, start, max_depth, w + 1)[1].v
        IN  /\ Found(high) \subseteq Found(low)
            /\ \A i \in DOMAIN high : \A j \in DOMAIN low :
                   (high[i].v \cap low[j].v # {}) => high[i].k >= low[j].k

\* C28 witness: raising min_weight from 1 to 2 drops an item at max_depth 1
\* and moves it from depth 1 to depth 2 at max_depth 2; raising it to 3
\* empties the result.
BfsMinWeightMonotone_Witness ==
    /\ Found(bfs_related(graph, <<1>>, 1, 1)[1].v) = {<<2>>, <<1, 2>>}
    /\ Found(bfs_related(graph, <<1>>, 1, 2)[1].v) = {<<2>>}
    /\ Get(bfs_related(graph, <<1>>, 2, 2)[1].v, 2, {}) = {<<1, 2>>}
    /\ Found(bfs_related(graph, <<1>>, 2, 3)[1].v) = {}

\* The permutations of 1..n, as functions.
Orders(n) ==
    {f \in [1..n -> 1..n] : \A i, j \in 1..n : i # j => f[i] # f[j]}

\* The list of baskets applied, reordered by the permutation f.
Reordered(f) == [i \in DOMAIN applied |-> applied[f[i]]]

\* Two graphs give the same weights and the same query results.
SameResults(g, h) ==
    /\ \A a, b \in QueryItems : get_weight(g, a, b) = get_weight(h, a, b)
    /\ \A k \in KValues : top_bundles(g, k) = top_bundles(h, k)
    /\ \A item \in QueryItems : \A k \in KValues :
           top_with_item(g, item, k) = top_with_item(h, item, k)
    /\ \A start \in QueryItems : \A max_depth \in DepthValues :
           \A min_weight \in MinWeightValues :
               bfs_related(g, start, max_depth, min_weight)
                   = bfs_related(h, start, max_depth, min_weight)

\* C26: basket updates commute: for any list of baskets, every permutation
\* of the list, applied to an empty graph, produces the same weights for all
\* pairs and the same results of top_bundles(k), top_with_item(item, k) and
\* bfs_related(start, max_depth, min_weight), whatever the order in which
\* nodes and edges were inserted.
UpdatesCommute ==
    /\ graph = BuildGraph(applied)
    /\ \A f \in Orders(Len(applied)) :
           SameResults(graph, BuildGraph(Reordered(f)))

\* C26 witness: a list of MaxBaskets baskets one of whose permutations
\* inserts the nodes in another order, with two neighbors of equal weight.
UpdatesCommute_Witness ==
    /\ Len(applied) = MaxBaskets
    /\ \E f \in Orders(Len(applied)) :
           /\ BuildGraph(Reordered(f)) # graph
           /\ Keys(BuildGraph(Reordered(f))) = Keys(graph)
    /\ \E item \in Items :
           /\ Len(neighbors(graph, item)) = 2
           /\ neighbors(graph, item)[1].v = neighbors(graph, item)[2].v

----------------------------------------------------------------------------
(* Properties of the transaction loader *)

\* load_from_csv was called and returned a list of baskets.
Loaded == result.raised = ""

\* The records of a file: its data rows as (field name -> value) mappings,
\* blank lines left out.
Records(f) ==
    {DictRow(f.fieldnames, f.rows[i]) : i \in {j \in DOMAIN f.rows : f.rows[j] # <<>>}}

\* The (Member_number, Date) key of a record, verbatim.
KeyOf(record) == <<Get(record, "Member_number", None), Get(record, "Date", None)>>

\* The trimmed non-empty item values of the records of f with the given key.
TrimmedItems(f, key) ==
    {Strip(Get(r, "itemDescription", None)) :
        r \in {q \in Records(f) : /\ KeyOf(q) = key
                                  /\ Get(q, "itemDescription", None) # None
                                  /\ Strip(Get(q, "itemDescription", None)) # <<>>}}

\* The required field names that the header of f lacks.
MissingFields(f) == Range(Required) \ Range(f.fieldnames)

\* C22: load_from_csv returns exactly one basket per distinct
\* (Member_number, Date) key occurring in the input records, the key fields
\* compared verbatim: the number of baskets is the number of distinct keys.
OneBasketPerKey ==
    Loaded => Len(result.baskets) = Cardinality({KeyOf(r) : r \in Records(file)})

\* C23: every basket returned by load_from_csv is in normal form: each item
\* is whitespace-trimmed, none is empty, none occurs twice, the items are in
\* strictly ascending lexicographic order; and its item set is exactly the
\* set of trimmed non-empty item values of the records with its key.
BasketsNormalForm ==
    Loaded =>
        /\ \A i \in DOMAIN result.baskets :
               LET basket == result.baskets[i]
               IN  /\ \A j \in DOMAIN basket :
                          basket[j] = Strip(basket[j]) /\ basket[j] # <<>>
                   /\ \A j, l \in DOMAIN basket : j < l => StrLess(basket[j], basket[l])
        /\ \E key \in [DOMAIN result.baskets -> {KeyOf(r) : r \in Records(file)}] :
               /\ \A i, j \in DOMAIN key : i # j => key[i] # key[j]
               /\ \A i \in DOMAIN key :
                      Range(result.baskets[i]) = TrimmedItems(file, key[i])

\* C23 witness: the rows "b" and " a" of one key were loaded as the basket
\* [a, b].
BasketsNormalForm_Witness ==
    /\ Loaded
    /\ file.fieldnames = Required
    /\ file.rows = << <<<<49>>, <<100>>, <<98>>>>, <<<<49>>, <<100>>, <<Space, 97>>>> >>
    /\ result.baskets = << <<<<97>>, <<98>>>> >>

\* C24: load_from_csv fails with the schema error (ValueError) whenever a
\* required field name is absent from the header row, whatever number of
\* data rows follows it, zero included; it never returns baskets then.
SchemaErrorRaised ==
    (result # NotCalled /\ file.exists /\ MissingFields(file) # {})
        => result.raised = "ValueError"

\* C25: when load_from_csv fails because required fields are missing, the
\* error names every required field that is absent from the header.
SchemaErrorNamesAll ==
    result.raised = "ValueError" => {result.column} = MissingFields(file)

\* C29: load_from_csv has only two failure outcomes: it returns a list of
\* baskets, raises FileNotFoundError or raises ValueError; no other error
\* escapes, also for a data row with fewer fields than the header, and on
\* failure no list of baskets is returned.
OnlyTwoFailures ==
    result # NotCalled =>
        /\ result.raised \in {"", "FileNotFoundError", "ValueError"}
        /\ result.raised # "" => result.baskets = <<>>

----------------------------------------------------------------------------
(* Properties of the interactive session *)

\* C30: in the main loop, after any sequence of menu choices (a reload via
\* option 6 whose load fails included), every dispatch of a query option 1-5
\* runs with query_service and graph bound to a successfully built graph,
\* never to None.
DispatchHasGraph == main.dispatched # "None"

====
